---- MODULE Spec2Model ----
(***************************************************************************)
(* A model of ur_monitor.py: the window gate, the once-a-day heartbeat,    *)
(* the three-strategy fetch chain, canonicalization, the state store and   *)
(* the diff step of main().                                                *)
(*                                                                         *)
(* Text is modelled as a sequence of code points.  A code point is written *)
(* as a one-element string; the non-ASCII ones have names:                 *)
(*   "SQM"  U+33A1 (the square-metre glyph)   "SUP2" U+00B2 (superscript 2)*)
(*   "YEN"  U+5186 (the yen kanji)            "IDSP" U+3000 (wide space)   *)
(***************************************************************************)
EXTENDS Integers, Sequences, FiniteSets, TLC

(***************************************************************************)
(* Program constants                                                       *)
(***************************************************************************)
PageSize == 20
MaxPages == 10
MaxCandidates == 6
MaxEmbedPage == 4
SampleSize == 5
HbMinuteEnd == 40

WINDOW_START == <<9, 30>>
WINDOW_END == <<18, 59>>

(***************************************************************************)
(* Bounds of the model                                                     *)
(***************************************************************************)
MaxDate == 2
MaxFaults == 1
MaxTok == 3

(***************************************************************************)
(* Text                                                                    *)
(***************************************************************************)
CodePoint(c) ==
    CASE c = " " -> 32
      [] c = "#" -> 35
      [] c = "&" -> 38
      [] c = "," -> 44
      [] c = "0" -> 48
      [] c = "1" -> 49
      [] c = "2" -> 50
      [] c = "3" -> 51
      [] c = "5" -> 53
      [] c = "7" -> 55
      [] c = ";" -> 59
      [] c = "K" -> 75
      [] c = "m" -> 109
      [] c = "p" -> 112
      [] c = "s" -> 115
      [] c = "u" -> 117
      [] c = "SUP2" -> 178
      [] c = "IDSP" -> 12288
      [] c = "SQM" -> 13217
      [] c = "YEN" -> 20870

\* the characters the pattern class [,\s] of clean() matches
IsCommaOrSpace(c) == c \in {",", " ", "IDSP"}

IsPrefixAt(s, i, pat) ==
    /\ i + Len(pat) - 1 <= Len(s)
    /\ \A k \in 1..Len(pat) : s[i + k - 1] = pat[k]

RECURSIVE ReplaceFrom(_, _, _, _)
ReplaceFrom(s, i, old, new) ==
    IF i > Len(s) THEN <<>>
    ELSE IF IsPrefixAt(s, i, old)
         THEN new \o ReplaceFrom(s, i + Len(old), old, new)
         ELSE <<s[i]>> \o ReplaceFrom(s, i + 1, old, new)

\* str.replace(old, new): every non-overlapping occurrence, left to right
Replace(s, old, new) == ReplaceFrom(s, 1, old, new)

decode_area(s) ==
    IF s = <<>> THEN <<>>
    ELSE LET s1 == Replace(s, <<"SQM">>, <<"m", "SUP2">>)
             s2 == Replace(s1, <<"&", "s", "u", "p", "2", ";">>, <<"SUP2">>)
             s3 == Replace(s2, <<"m", "&", "s", "u", "p", "2", ";">>, <<"m", "SUP2">>)
         IN  Replace(s3, <<"SQM">>, <<"m", "SUP2">>)

RemoveCommaSpace(s) == SelectSeq(s, LAMBDA c : ~IsCommaOrSpace(c))

clean(s) == RemoveCommaSpace(decode_area(s))

(***************************************************************************)
(* Room records and response bodies                                        *)
(***************************************************************************)
S101 == <<"1", "0", "1">>
S102 == <<"1", "0", "2">>
S1K == <<"1", "K">>
S25sqm == <<"2", "5", "SQM">>
S25msup == <<"2", "5", "m", "&", "s", "u", "p", "2", ";">>
S70k == <<"7", "0", ",", "0", "0", "0", "YEN">>
S3k == <<"3", ",", "0", "0", "0", "YEN">>

\* A decoded JSON object of the API: a missing (or falsy) key is <<>>.
ItemA ==
    [id |-> <<"7">>, roomId |-> <<>>, name |-> S101, roomNo |-> <<>>,
     type |-> S1K, layout |-> <<>>, floorspace |-> S25sqm, area |-> <<>>,
     floor |-> <<"2">>, rent |-> S70k, commonfee |-> S3k, maintenanceFee |-> <<>>]

ItemB ==
    [id |-> <<>>, roomId |-> <<"5">>, name |-> <<>>, roomNo |-> S102,
     type |-> <<>>, layout |-> S1K, floorspace |-> <<>>, area |-> S25msup,
     floor |-> <<"3">>, rent |-> S70k, commonfee |-> <<>>, maintenanceFee |-> S3k]

Or(a, b) == IF a # <<>> THEN a ELSE b

\* lines 112-120: one JSON item to one room dict
room_of_item(it) ==
    [id |-> Or(it.id, it.roomId),
     name |-> Or(it.name, it.roomNo),
     type |-> Or(it.type, it.layout),
     floorspace |-> decode_area(Or(it.floorspace, it.area)),
     floor |-> it.floor,
     rent |-> it.rent,
     commonfee |-> Or(it.commonfee, it.maintenanceFee)]

\* A room as the HTML path builds it (lines 141-149): no id, the area
\* rewritten with the native glyph.
HtmlRoomB ==
    [id |-> <<>>, name |-> S102, type |-> S1K, floorspace |-> S25sqm,
     floor |-> <<"3">>, rent |-> S70k, commonfee |-> S3k]

Repeat(x, n) == [i \in 1..n |-> x]

\* A response body.  json: what json.loads gives ("list", a "dict" holding a
\* list under one of the four known keys, "other" for any other JSON value,
\* "none" when the text is not JSON); items: the list; dicts: FALSE when
\* some element of the list is not an object; html: the rooms the pattern
\* extractors of the HTML path recognise in the text.
Body(json, items, dicts, html) ==
    [json |-> json, items |-> items, dicts |-> dicts, html |-> html]

JsonFull == Body("list", Repeat(ItemA, PageSize), TRUE, <<>>)
\* a page with one item more than was asked for
JsonOver == Body("list", Repeat(ItemA, PageSize + 1), TRUE, <<>>)
JsonShortA == Body("dict", <<ItemA>>, TRUE, <<>>)
JsonShortB == Body("dict", <<ItemB>>, TRUE, <<>>)
JsonEmpty == Body("list", <<>>, TRUE, <<>>)
JsonScalars == Body("list", <<ItemA>>, FALSE, <<>>)
JsonOther == Body("other", <<>>, TRUE, <<>>)
TextBlank == Body("none", <<>>, TRUE, <<>>)
TextRooms == Body("none", <<>>, TRUE, <<HtmlRoomB>>)

\* parse_entries raises (AttributeError on it.get) when a list element is
\* not an object
parse_raises(body) == body.json \in {"list", "dict"} /\ ~body.dicts

parse_entries(body) ==
    IF body.json \in {"list", "dict"}
    THEN [i \in 1..Len(body.items) |-> room_of_item(body.items[i])]
    ELSE body.html

(***************************************************************************)
(* Canonical keys                                                          *)
(***************************************************************************)
key_of(r) ==
    <<clean(r.name), clean(r.type), clean(r.floorspace),
      clean(r.floor), clean(r.rent), clean(r.commonfee)>>

RECURSIVE StrLess(_, _)
\* a < b for two strings: by code point, a proper prefix first
StrLess(a, b) ==
    IF a = <<>> THEN b # <<>>
    ELSE IF b = <<>> THEN FALSE
    ELSE IF Head(a) = Head(b) THEN StrLess(Tail(a), Tail(b))
    ELSE CodePoint(Head(a)) < CodePoint(Head(b))

RECURSIVE TupleLess(_, _)
\* a < b for two tuples of strings
TupleLess(a, b) ==
    IF a = <<>> THEN b # <<>>
    ELSE IF b = <<>> THEN FALSE
    ELSE IF Head(a) = Head(b) THEN TupleLess(Tail(a), Tail(b))
    ELSE StrLess(Head(a), Head(b))

RECURSIVE Sorted(_)
\* sorted(S) for a set of tuples of strings
Sorted(S) ==
    IF S = {} THEN <<>>
    ELSE LET least == CHOOSE x \in S : \A y \in S \ {x} : TupleLess(x, y)
         IN  <<least>> \o Sorted(S \ {least})

\* canonicalize(rooms): the sorted list of the distinct keys
canonicalize(rooms) == Sorted({key_of(rooms[i]) : i \in 1..Len(rooms)})

(***************************************************************************)
(* The state store                                                         *)
(*                                                                         *)
(* A file is [shape, rooms, complete].  shape: "absent" (no such file),    *)
(* "dict" (a JSON object whose "rooms" key holds a list), "list" (a bare   *)
(* JSON list), "other" (any other JSON value), "garbage" (not JSON).       *)
(* complete is FALSE while the text of the file is only partly written.    *)
(***************************************************************************)
File(shape, rooms, complete) == [shape |-> shape, rooms |-> rooms, complete |-> complete]

NoFile == File("absent", <<>>, TRUE)

Set(seq) == {seq[i] : i \in 1..Len(seq)}

\* the (prev, is_init) pair load_state returns
Loaded(prev, is_init) == [prev |-> prev, is_init |-> is_init]

\* a load_state that takes a stored empty list for a missing state
load_state_empty_is_init(disk) ==
    LET c == disk.state
    IN  IF c.shape \in {"dict", "list"} /\ c.complete /\ c.rooms # <<>>
        THEN [prev |-> {c.rooms[i] : i \in 1..Len(c.rooms)}, is_init |-> FALSE]
        ELSE [prev |-> {}, is_init |-> TRUE]

\* load_state reads STATE_PATH only; disk is [state, tmp].  The shapes of a
\* file: "absent"; "garbage" (not JSON, json.load raises); "dict" (an object
\* with a list under "rooms") and "list" (a bare list), whose elements are
\* lists of strings of any length, each made a tuple as it is; "scalars" (a
\* list with an element tuple() or set() rejects, a TypeError); "other" (any
\* other JSON value, or an object whose "rooms" is no list).
load_state(disk) ==
    LET c == disk.state
    IN  IF c.shape = "absent" THEN Loaded({}, TRUE)
        ELSE IF ~c.complete \/ c.shape = "garbage" THEN Loaded({}, TRUE)
        ELSE IF c.shape \in {"dict", "list"} THEN Loaded(Set(c.rooms), FALSE)
        ELSE Loaded({}, TRUE)

\* the document json.dump writes
save_payload(s) == File("dict", Sorted(s), TRUE)

\* a save_state that opens STATE_PATH itself for writing
save_open_in_place(disk) == [disk EXCEPT !.state = File("dict", <<>>, FALSE)]

\* open(tmp, "w"): the temp file exists and is empty
save_open(disk) == [disk EXCEPT !.tmp = File("dict", <<>>, FALSE)]

\* json.dump and the close of the with block
save_write(disk, s) == [disk EXCEPT !.tmp = save_payload(s)]

\* os.replace(tmp, STATE_PATH)
save_replace(disk) == [state |-> disk.tmp, tmp |-> NoFile]

(***************************************************************************)
(* Time                                                                    *)
(***************************************************************************)
Time(date, h, mi, s, us) == [date |-> date, h |-> h, mi |-> mi, s |-> s, us |-> us]

\* a <= b for two datetimes
DtLE(a, b) ==
    LET x == <<a.date, a.h, a.mi, a.s, a.us>>
        y == <<b.date, b.h, b.mi, b.s, b.us>>
    IN  \/ x = y
        \/ \E i \in 1..5 : x[i] < y[i] /\ \A j \in 1..(i - 1) : x[j] = y[j]

in_window(t) ==
    LET start == [t EXCEPT !.h = WINDOW_START[1], !.mi = WINDOW_START[2], !.s = 0, !.us = 0]
        end == [t EXCEPT !.h = WINDOW_END[1], !.mi = WINDOW_END[2], !.s = 59, !.us = 0]
    IN  DtLE(start, t) /\ DtLE(t, end)

\* now.strftime("%Y%m%d"): the dates of the model are the days of one month
strftime_ymd(t) == 20261100 + t.date

\* a marker check that never finds today's stamp
_hb_sent_never(marker, t) == FALSE

\* the marker file holds a stamp; 0 stands for a file that is missing
_hb_sent_today(marker, t) == marker = strftime_ymd(t)

_hb_mark(t) == strftime_ymd(t)

\* a heartbeat condition that opens one minute early
hb_due_early(marker, t) ==
    t.h = 9 /\ 29 <= t.mi /\ t.mi < HbMinuteEnd /\ ~_hb_sent_today(marker, t)

\* the heartbeat condition of main(), line 416
hb_due(marker, t) ==
    t.h = 9 /\ 30 <= t.mi /\ t.mi < HbMinuteEnd /\ ~_hb_sent_today(marker, t)

(***************************************************************************)
(* The environment: clock readings and responses                           *)
(*                                                                         *)
(* scenario "runs" follows many runs over several days with a small menu   *)
(* of responses; scenario "deep" follows the runs of one day with the full *)
(* menu (full pages on every request, seven candidate URLs); scenario      *)
(* "crash" follows the runs of one day with the small menu.                *)
(***************************************************************************)
Clock(h, mi, s, us) == [h |-> h, mi |-> mi, s |-> s, us |-> us]

ClockPoints(sc) ==
    IF sc = "runs"
    THEN {Clock(9, 29, 59, 999999), Clock(9, 30, 0, 0), Clock(9, 39, 59, 999999),
          Clock(9, 40, 0, 0),
          Clock(18, 59, 59, 0), Clock(18, 59, 59, 1), Clock(19, 0, 0, 0)}
    ELSE IF sc = "crash"
    THEN {Clock(9, 30, 0, 0), Clock(9, 40, 0, 0), Clock(18, 59, 59, 0), Clock(19, 0, 0, 0)}
    ELSE {Clock(9, 40, 0, 0), Clock(19, 0, 0, 0)}

Dates(sc) == IF sc = "runs" THEN 1..MaxDate ELSE {1}

Times(sc) ==
    {Time(d, c.h, c.mi, c.s, c.us) : d \in Dates(sc), c \in ClockPoints(sc)}

\* A response: kind "ok" (status 200), "status" (an HTTP error status) or
\* "raise" (timeout, connection error: requests raises)
Resp(kind, body) == [kind |-> kind, body |-> body]

HtmlFull == Body("none", <<>>, TRUE, Repeat(HtmlRoomB, PageSize))

ApiResponses(sc, page) ==
    {Resp("raise", TextBlank), Resp("status", TextBlank)}
    \cup {Resp("ok", b) : b \in {JsonShortB, JsonEmpty, JsonScalars, JsonOther,
                                 TextBlank, TextRooms}}
    \cup (IF sc = "deep" \/ page = 1 THEN {Resp("ok", JsonFull)} ELSE {})
    \cup (IF sc = "deep" /\ page = 1 THEN {Resp("ok", JsonOver)} ELSE {})

\* A candidate URL: its keyword score and whether the text googletagmanager
\* occurs in it
Cand(id, score, gtm) == [id |-> id, score |-> score, gtm |-> gtm]

CandSets(sc) ==
    IF sc = "deep"
    THEN {{}, {Cand(i, 7 - i, FALSE) : i \in 1..(MaxCandidates + 1)}}
    ELSE {{}, {Cand(1, 2, FALSE), Cand(2, 2, TRUE), Cand(3, 0, FALSE)}}

OuterResponses(sc) == {Resp("raise", TextBlank), Resp("status", TextBlank), Resp("ok", TextBlank)}

CandResponses(sc) ==
    {Resp("raise", TextBlank), Resp("status", TextBlank), Resp("ok", TextBlank),
     Resp("ok", TextRooms), Resp("ok", JsonScalars)}

PageResponses(sc) ==
    {Resp("raise", TextBlank), Resp("status", TextBlank), Resp("ok", TextBlank)}
    \cup (IF sc = "deep" THEN {Resp("ok", HtmlFull)} ELSE {Resp("ok", TextRooms)})

HtmlResponses(sc) ==
    {Resp("raise", TextBlank), Resp("status", TextBlank), Resp("ok", TextBlank),
     Resp("ok", TextRooms), Resp("ok", JsonShortA)}

\* how a call of notify ends: "log" (no credentials: printed), "posted",
\* "failed" (the request raised: logged)
NotifyOutcomes == {"log", "posted", "failed"}

\* A message handed to notify: its kind, for an initialization notice the
\* count it states, for a change notice the names of its + and - lines
Msg(kind, n, plus, minus) == [kind |-> kind, n |-> n, plus |-> plus, minus |-> minus]

\* What one call of notify did: posts, the requests.post calls it made;
\* logged, whether it printed the message in full; raised, whether an
\* exception left it.
Notice(msg, via, posts, logged, raised) ==
    [msg |-> msg, via |-> via, posts |-> posts, logged |-> logged, raised |-> raised]

\* a notify that lets the error of the request out
notify_propagates(msg, via) ==
    IF via = "log" THEN Notice(msg, via, 0, TRUE, FALSE)
    ELSE IF via = "posted" THEN Notice(msg, via, 1, FALSE, FALSE)
    ELSE Notice(msg, via, 1, FALSE, TRUE)

\* lines 378-395.  via "log": a credential is missing, the message is
\* printed (lines 381-383); "posted": requests.post returned (its status is
\* printed, line 392); "failed": requests.post raised, the error and the
\* message are printed (lines 393-395).
notify(msg, via) ==
    IF via = "log" THEN Notice(msg, via, 0, TRUE, FALSE)
    ELSE IF via = "posted" THEN Notice(msg, via, 1, FALSE, FALSE)
    ELSE Notice(msg, via, 1, TRUE, FALSE)

(***************************************************************************)
(* State                                                                   *)
(***************************************************************************)
VARIABLES
    scenario,   \* which menu of the environment this behaviour draws from
    now,        \* the clock reading of the current (or last) run
    disk,       \* [state, tmp]: the files STATE_PATH and STATE_PATH.tmp
    hbFile,     \* the stamp in HB_FILE, 0 when the file is missing
    pc,         \* where main() is; "idle" between two runs
    m,          \* the locals of main(): prev, is_init, rooms, current
    f,          \* the locals of the running fetch strategy
    g,          \* what this run has done so far (history of the run)
    hbCount,    \* per date, the heartbeat notices sent (history)
    last        \* history across runs: the key set of the last completed
                \* in-window run, and what the last run killed after its
                \* diff step had sent and was about to save

vars == <<scenario, now, disk, hbFile, pc, m, f, g, hbCount, last>>

\* no run was killed between its diff step and the end of its save
NoCut == [on |-> FALSE, msgs |-> <<>>, current |-> {}]

Last0 == [set |-> {}, any |-> FALSE, cut |-> NoCut]

M0 == [prev |-> {}, is_init |-> FALSE, rooms |-> <<>>, current |-> {}]

\* The last four fields are history: fetched, the number of candidates
\* requested; accepted, the number of those whose items went into out;
\* late, a candidate was requested after one had been accepted; preq, the
\* paging requests made for the candidate at hand.
F0 ==
    [page |-> 1, results |-> <<>>, cands |-> <<>>, ci |-> 0, tried |-> 0,
     key |-> 0, i |-> 0, out |-> <<>>,
     fetched |-> 0, accepted |-> 0, late |-> FALSE, preq |-> 0]

G0(d, hb) ==
    [started |-> <<>>,      \* the strategies invoked, in order
     calls |-> <<>>,        \* [name, n]: the strategies that returned, n records
     errs |-> {},           \* the strategies in which a request failed
     pfaults |-> 0,         \* paging requests of the embed strategy that raised
     nonjson1 |-> FALSE,    \* the first API page was answered with non-JSON text
     apiReqs |-> <<>>,      \* the page numbers requested from the API
     apiGot |-> <<>>,       \* per request, the items it gave, -1 for an error
     outer |-> "none",      \* the outer page of the embed strategy: "ok", "failed"
     outerReqs |-> 0,       \* the requests of the outer page
     htmlReqs |-> 0,        \* the requests of fetch_html_fallback
     notices |-> <<>>,      \* the calls of notify
     loads |-> 0,           \* the calls of load_state
     diffed |-> FALSE,      \* the diff step (lines 440-452) has run
     saves |-> <<>>,        \* the arguments of the calls of save_state
     recanon |-> {},        \* the keys of the records rebuilt from the keys
     disk0 |-> d,           \* the files when the run started
     hb0 |-> hb]

StateFiles0(sc) ==
    IF sc = "deep"
    THEN {NoFile}
    ELSE IF sc = "crash"
    THEN {NoFile, File("scalars", <<>>, TRUE), File("list", <<key_of(HtmlRoomB)>>, TRUE)}
    ELSE {NoFile, File("garbage", <<>>, TRUE), File("other", <<>>, TRUE),
          File("list", <<key_of(HtmlRoomB)>>, TRUE), File("dict", <<<<S101>>>>, TRUE)}

InitFor(sc) ==
    /\ scenario = sc
    /\ now = Time(1, 0, 0, 0, 0)
    /\ \E c \in StateFiles0(sc) : disk = [state |-> c, tmp |-> NoFile]
    /\ hbFile = 0
    /\ pc = "idle"
    /\ m = M0
    /\ f = F0
    /\ g = G0(disk, hbFile)
    /\ hbCount = [d \in 1..MaxDate |-> 0]
    /\ last = Last0

Init == InitFor("runs")

InitDeep == InitFor("deep")

InitCrash == InitFor("crash")

\* The three ways a page writes the square-meter unit: the glyph U+33A1,
\* the numeric entity of that glyph, and m with the named entity of the
\* superscript two.
UnitEncodings ==
    {<<"SQM">>,
     <<"&", "#", "1", "3", "2", "1", "7", ";">>,
     <<"m", "&", "s", "u", "p", "2", ";">>}

\* the pieces field strings are made of; "UNIT" stands for the unit
TextTokens ==
    {<<"2", "5">>, <<"UNIT">>, <<" ">>, <<",">>, <<"m">>, <<"&", "s", "u">>, <<"p", "2", ";">>}

TokenSeqs == UNION {[1..n -> TextTokens] : n \in 0..MaxTok}

RECURSIVE Render(_, _)
\* the string of a token sequence, its units written in encoding e
Render(toks, e) ==
    IF toks = <<>> THEN <<>>
    ELSE (IF Head(toks) = <<"UNIT">> THEN e ELSE Head(toks)) \o Render(Tail(toks), e)

\* a room dict whose floor area is x
RoomWithArea(x) == [HtmlRoomB EXCEPT !.floorspace = x]

\* canonicalize() applied to rooms that differ in the encoding of the unit
\* of their floor area only
InitText ==
    /\ scenario = "text"
    /\ now = Time(1, 10, 0, 0, 0)
    /\ disk = [state |-> NoFile, tmp |-> NoFile]
    /\ hbFile = 0
    /\ pc = "canon"
    /\ \E toks \in TokenSeqs : \E e1, e2 \in UnitEncodings :
          m = [M0 EXCEPT !.rooms = <<RoomWithArea(Render(toks, e1)),
                                     RoomWithArea(Render(toks, e2))>>]
    /\ f = F0
    /\ g = G0(disk, hbFile)
    /\ hbCount = [d \in 1..MaxDate |-> 0]
    /\ last = Last0

Min(a, b) == IF a < b THEN a ELSE b

(***************************************************************************)
(* main(): the clock, the heartbeat, the window gate                       *)
(***************************************************************************)
\* line 418
hb_msg == Msg("heartbeat", 0, <<>>, <<>>)

\* line 413: now = datetime.now(JST); a later run reads a later time
StartRun ==
    /\ pc = "idle"
    /\ \E t \in Times(scenario) : DtLE(now, t) /\ t # now /\ now' = t
    /\ pc' = "hb"
    /\ m' = M0
    /\ f' = F0
    /\ g' = G0(disk, hbFile)
    /\ UNCHANGED <<scenario, disk, hbFile, hbCount, last>>

\* lines 416-421
Heartbeat ==
    /\ pc = "hb"
    /\ IF hb_due(hbFile, now)
       THEN \E via \in NotifyOutcomes :
                 LET n == notify(hb_msg, via)
                 IN  /\ g' = [g EXCEPT !.notices = Append(@, n)]
                     /\ hbFile' = IF n.raised THEN hbFile ELSE _hb_mark(now)
                     /\ hbCount' = [hbCount EXCEPT ![now.date] = Min(@ + 1, 2)]
       ELSE UNCHANGED <<g, hbFile, hbCount>>
    /\ pc' = "gate"
    /\ UNCHANGED <<scenario, now, disk, m, f, last>>

\* lines 423-425
Gate ==
    /\ pc = "gate"
    /\ pc' = IF in_window(now) THEN "load" ELSE "done"
    /\ UNCHANGED <<scenario, now, disk, hbFile, m, f, g, hbCount, last>>

\* line 427, and the entry of fetch_all into its first strategy
LoadState ==
    /\ pc = "load"
    /\ LET l == load_state(disk)
       IN  m' = [m EXCEPT !.prev = l.prev, !.is_init = l.is_init]
    /\ g' = [g EXCEPT !.loads = @ + 1, !.started = Append(@, "api")]
    /\ f' = F0
    /\ pc' = "api"
    /\ UNCHANGED <<scenario, now, disk, hbFile, hbCount, last>>

(***************************************************************************)
(* The fetch chain                                                         *)
(***************************************************************************)
\* requests raised, raise_for_status raised, or parse_entries raised: the
\* except clause around the request is entered
raises(r) == r.kind # "ok" \/ parse_raises(r.body)

\* a fetch_all that goes on to the next strategy whatever it got
fetch_all_falls_through(rooms) == FALSE

\* fetch_all, lines 332 and 335: a non-empty list is returned at once
fetch_all_returns(rooms) == rooms # <<>>

\* lines 73-75: the cursor and the page size of a request
make_payload(page) == [indexNo |-> page, pageSize |-> PageSize]

\* a loop that goes on after a short page
api_page_past_short(fl, r) ==
    LET items == parse_entries(r.body)
        broke == raises(r) \/ items = <<>>
        fl2 == [fl EXCEPT !.results = IF raises(r) THEN @ ELSE @ \o items,
                          !.page = IF broke THEN @ ELSE @ + 1]
    IN  [f |-> fl2, left |-> broke \/ fl2.page > MaxPages]

\* One pass of the while loop of fetch_api_v2_old, lines 226-241, on the
\* response r: the locals after it, and whether the loop is left.
api_page(fl, r) ==
    LET items == parse_entries(r.body)
        broke == raises(r) \/ items = <<>> \/ Len(items) < PageSize
        fl2 == [fl EXCEPT !.results = IF raises(r) THEN @ ELSE @ \o items,
                          !.page = IF broke THEN @ ELSE @ + 1]
    IN  [f |-> fl2, left |-> broke \/ fl2.page > MaxPages]

ApiRequest ==
    /\ pc = "api"
    /\ \E r \in ApiResponses(scenario, f.page) :
         LET a == api_page(f, r)
         IN  /\ f' = a.f
             /\ pc' = IF a.left THEN "api_ret" ELSE "api"
             /\ g' = [g EXCEPT !.apiReqs = Append(@, make_payload(f.page).indexNo),
                               !.apiGot = Append(@, IF raises(r) THEN -1
                                                    ELSE Len(parse_entries(r.body))),
                               !.errs = IF r.kind # "ok" THEN @ \cup {"api"} ELSE @,
                               !.nonjson1 = IF f.page = 1 /\ r.kind = "ok" /\ r.body.json = "none"
                                            THEN TRUE ELSE @]
    /\ UNCHANGED <<scenario, now, disk, hbFile, m, hbCount, last>>

\* lines 331-334: fetch_api_v2_old has returned and its locals are gone
AfterApi ==
    /\ pc = "api_ret"
    /\ IF fetch_all_returns(f.results)
       THEN /\ m' = [m EXCEPT !.rooms = f.results]
            /\ g' = [g EXCEPT !.calls = Append(@, [name |-> "api", n |-> Len(f.results)])]
            /\ pc' = "canon"
       ELSE /\ m' = m
            /\ g' = [g EXCEPT !.calls = Append(@, [name |-> "api", n |-> Len(f.results)]),
                              !.started = Append(@, "embed")]
            /\ pc' = "embed_outer"
    /\ f' = F0
    /\ UNCHANGED <<scenario, now, disk, hbFile, hbCount, last>>

RECURSIVE Orders(_)
\* sorted(cands, key=_score): the higher score first; cands comes from a
\* set, so candidates of equal score come in any order
Orders(S) ==
    IF S = {} THEN {<<>>}
    ELSE UNION {{<<c>> \o t : t \in Orders(S \ {c})} :
                c \in {x \in S : \A y \in S : y.score <= x.score}}

Take(seq, n) == SubSeq(seq, 1, Min(n, Len(seq)))

\* the candidates the for loop of line 280 goes through
ranked(S) == {Take(o, MaxCandidates) : o \in Orders(S)}

\* lines 253-268
EmbedOuter ==
    /\ pc = "embed_outer"
    /\ \E r \in OuterResponses(scenario) :
         IF r.kind # "ok"
         THEN /\ f' = f
              /\ g' = [g EXCEPT !.errs = @ \cup {"embed"}, !.outer = "failed",
                                !.outerReqs = @ + 1]
              /\ pc' = "embed_ret"
         ELSE \E S \in CandSets(scenario) : \E cs \in ranked(S) :
                /\ f' = [f EXCEPT !.cands = cs, !.ci = 1]
                /\ g' = [g EXCEPT !.outer = "ok", !.outerReqs = @ + 1]
                /\ pc' = IF cs = <<>> THEN "embed_ret" ELSE "embed_cand"
    /\ UNCHANGED <<scenario, now, disk, hbFile, m, hbCount, last>>

\* continue (or the end of the try block without a break): the for loop
\* of line 280 goes to its next candidate, or ends
next_cand(fl) ==
    IF fl.ci < Len(fl.cands)
    THEN [f |-> [fl EXCEPT !.ci = @ + 1], pc |-> "embed_cand"]
    ELSE [f |-> fl, pc |-> "embed_ret"]

\* lines 281-293: the first request of one candidate
EmbedCandidate ==
    /\ pc = "embed_cand"
    /\ LET fl == [f EXCEPT !.tried = @ + 1]
       IN  IF fl.cands[fl.ci].gtm
           THEN /\ f' = next_cand(fl).f
                /\ pc' = next_cand(fl).pc
                /\ g' = g
           ELSE \E r \in CandResponses(scenario) :
                  LET items == parse_entries(r.body)
                      fr == [fl EXCEPT !.fetched = @ + 1, !.late = fl.accepted > 0]
                  IN  IF raises(r) \/ items = <<>>
                      THEN /\ f' = next_cand(fr).f
                           /\ pc' = next_cand(fr).pc
                           /\ g' = [g EXCEPT !.errs = IF r.kind # "ok" THEN @ \cup {"embed"} ELSE @]
                      ELSE /\ f' = [fr EXCEPT !.out = @ \o items, !.key = 1, !.i = 1,
                                              !.accepted = @ + 1, !.preq = 0]
                           /\ pc' = "embed_page"
                           /\ g' = g
    /\ UNCHANGED <<scenario, now, disk, hbFile, m, hbCount, last>>

PageKeys == <<"pageIndex", "idx", "page">>

\* break of the inner loop (line 297): the next page parameter, or the
\* break of line 310 after the last one
next_key(fl) ==
    IF fl.key < Len(PageKeys)
    THEN [f |-> [fl EXCEPT !.key = @ + 1, !.i = 1], pc |-> "embed_page"]
    ELSE [f |-> fl, pc |-> "embed_ret"]

\* a paging loop with no last page
embed_page_uncapped(fl, r) ==
    LET more == parse_entries(r.body)
    IN  IF r.kind = "raise" \/ (r.kind = "ok" /\ parse_raises(r.body))
        THEN next_cand(fl)
        ELSE IF r.kind # "ok" \/ more = <<>>
        THEN next_key(fl)
        ELSE LET fl2 == [fl EXCEPT !.out = @ \o more]
             IN  IF Len(more) < PageSize
                 THEN next_key(fl2)
                 ELSE [f |-> [fl2 EXCEPT !.i = @ + 1], pc |-> "embed_page"]

\* lines 298-309: one paging request of the accepted candidate
embed_page(fl, r) ==
    LET more == parse_entries(r.body)
    IN  IF r.kind = "raise" \/ (r.kind = "ok" /\ parse_raises(r.body))
        THEN next_cand(fl)
        ELSE IF r.kind # "ok" \/ more = <<>>
        THEN next_key(fl)
        ELSE LET fl2 == [fl EXCEPT !.out = @ \o more]
             IN  IF Len(more) < PageSize \/ fl.i = MaxEmbedPage
                 THEN next_key(fl2)
                 ELSE [f |-> [fl2 EXCEPT !.i = @ + 1], pc |-> "embed_page"]

EmbedPage ==
    /\ pc = "embed_page"
    /\ \E r \in PageResponses(scenario) :
         /\ r.kind = "raise" => g.pfaults < MaxFaults
         /\ f' = embed_page([f EXCEPT !.preq = @ + 1], r).f
         /\ pc' = embed_page(f, r).pc
         /\ g' = [g EXCEPT !.errs = IF r.kind # "ok" THEN @ \cup {"embed"} ELSE @,
                           !.pfaults = IF r.kind = "raise" THEN @ + 1 ELSE @]
    /\ UNCHANGED <<scenario, now, disk, hbFile, m, hbCount, last>>

\* lines 334-337: fetch_public_via_embed has returned
AfterEmbed ==
    /\ pc = "embed_ret"
    /\ IF fetch_all_returns(f.out)
       THEN /\ m' = [m EXCEPT !.rooms = f.out]
            /\ g' = [g EXCEPT !.calls = Append(@, [name |-> "embed", n |-> Len(f.out)])]
            /\ pc' = "canon"
       ELSE /\ m' = m
            /\ g' = [g EXCEPT !.calls = Append(@, [name |-> "embed", n |-> Len(f.out)]),
                              !.started = Append(@, "html")]
            /\ pc' = "html"
    /\ f' = F0
    /\ UNCHANGED <<scenario, now, disk, hbFile, hbCount, last>>

\* fetch_html_fallback, lines 317-327
html_rooms(r) == IF raises(r) THEN <<>> ELSE parse_entries(r.body)

HtmlFallback ==
    /\ pc = "html"
    /\ \E r \in HtmlResponses(scenario) :
         /\ m' = [m EXCEPT !.rooms = html_rooms(r)]
         /\ g' = [g EXCEPT !.calls = Append(@, [name |-> "html", n |-> Len(html_rooms(r))]),
                           !.htmlReqs = @ + 1,
                           !.errs = IF r.kind # "ok" THEN @ \cup {"html"} ELSE @]
    /\ pc' = "canon"
    /\ UNCHANGED <<scenario, now, disk, hbFile, f, hbCount, last>>

(***************************************************************************)
(* main(): canonicalize, diff, notify, save                                *)
(***************************************************************************)
\* a main() that saves before it diffs and notifies
after_canon_save == "save_open"

\* lines 429-440: the diff step follows canonicalize
after_canon == "diff"

\* line 429
Canon ==
    /\ pc = "canon"
    /\ m' = [m EXCEPT !.current = Set(canonicalize(m.rooms))]
    /\ pc' = after_canon
    /\ UNCHANGED <<scenario, now, disk, hbFile, f, g, hbCount, last>>

\* a diff step that takes an empty previous set for a missing state
diff_branch_by_emptiness(prev, is_init, current) ==
    IF prev = {} THEN "init"
    ELSE IF current # prev THEN "change"
    ELSE "no_change"

\* the branch taken at lines 440-452
diff_branch(prev, is_init, current) ==
    IF is_init THEN "init"
    ELSE IF current # prev THEN "change"
    ELSE "no_change"

\* a main() that saves only when it has sent a notice
after_diff_skip(b) == IF b = "no_change" THEN "done" ELSE "save_open"

\* line 454 follows the if statement whatever branch was taken
after_diff(b) == "save_open"

\* [a[0] for a in sorted(S)][:5]
sample(S) == LET srt == Sorted(S) IN Take([i \in 1..Len(srt) |-> srt[i][1]], SampleSize)

\* line 441
init_msg(current) == Msg("init", Cardinality(current), <<>>, <<>>)

\* a change notice that leaves out the removed entries
change_msg_added_only(prev, current) == Msg("change", 0, sample(current \ prev), <<>>)

\* lines 443-450
change_msg(prev, current) == Msg("change", 0, sample(current \ prev), sample(prev \ current))

\* lines 440-452
Diff ==
    /\ pc = "diff"
    /\ LET b == diff_branch(m.prev, m.is_init, m.current)
           msg == IF b = "init" THEN init_msg(m.current) ELSE change_msg(m.prev, m.current)
       IN  IF b = "no_change"
           THEN /\ g' = [g EXCEPT !.diffed = TRUE]
                /\ pc' = after_diff(b)
           ELSE \E via \in NotifyOutcomes :
                    LET n == notify(msg, via)
                    IN  /\ g' = [g EXCEPT !.notices = Append(@, n), !.diffed = TRUE]
                        /\ pc' = IF n.raised THEN "aborted" ELSE after_diff(b)
    /\ UNCHANGED <<scenario, now, disk, hbFile, m, f, hbCount, last>>

\* line 454 and lines 371-373: save_state(current) opens the temp file
SaveOpen ==
    /\ pc = "save_open"
    /\ disk' = save_open(disk)
    /\ g' = [g EXCEPT !.saves = Append(@, m.current)]
    /\ pc' = "save_write"
    /\ UNCHANGED <<scenario, now, hbFile, m, f, hbCount, last>>

\* line 374
SaveWrite ==
    /\ pc = "save_write"
    /\ disk' = save_write(disk, g.saves[Len(g.saves)])
    /\ pc' = "save_replace"
    /\ UNCHANGED <<scenario, now, hbFile, m, f, g, hbCount, last>>

\* line 375
SaveReplace ==
    /\ pc = "save_replace"
    /\ disk' = save_replace(disk)
    /\ pc' = "done"
    /\ UNCHANGED <<scenario, now, hbFile, m, f, g, hbCount, last>>

\* main() returns: the process ends and its locals are gone
Finish ==
    /\ pc \in {"done", "aborted"}
    /\ pc' = "idle"
    /\ last' = IF pc = "done" /\ in_window(now)
               THEN [set |-> m.current, any |-> TRUE, cut |-> NoCut]
               ELSE last
    /\ m' = M0
    /\ f' = F0
    /\ g' = G0(disk, hbFile)
    /\ UNCHANGED <<scenario, now, disk, hbFile, hbCount>>

\* the messages of the notices of the diff step
DiffMsgs ==
    LET ns == SelectSeq(g.notices, LAMBDA n : n.msg.kind \in {"init", "change"})
    IN  [i \in 1..Len(ns) |-> ns[i].msg]

\* the process is killed in the middle of a run; the files stay as they are
Interrupt ==
    /\ pc \notin {"idle", "done", "aborted"}
    /\ pc' = "idle"
    /\ m' = M0
    /\ f' = F0
    /\ g' = G0(disk, hbFile)
    /\ last' = IF pc \in {"save_open", "save_write", "save_replace"}
               THEN [last EXCEPT !.cut = [on |-> TRUE, msgs |-> DiffMsgs,
                                          current |-> m.current]]
               ELSE last
    /\ UNCHANGED <<scenario, now, disk, hbFile, hbCount>>

Next ==
    \/ StartRun
    \/ Heartbeat
    \/ Gate
    \/ LoadState
    \/ ApiRequest
    \/ AfterApi
    \/ EmbedOuter
    \/ EmbedCandidate
    \/ EmbedPage
    \/ AfterEmbed
    \/ HtmlFallback
    \/ Canon
    \/ Diff
    \/ SaveOpen
    \/ SaveWrite
    \/ SaveReplace
    \/ Finish

NextCrash == Next \/ Interrupt

\* a room dict with the six fields of a key
record_of_key(k) ==
    [id |-> <<>>, name |-> k[1], type |-> k[2], floorspace |-> k[3],
     floor |-> k[4], rent |-> k[5], commonfee |-> k[6]]

\* canonicalize() applied to the records rebuilt from the current keys
Recanon ==
    /\ pc = "diff"
    /\ LET ks == Sorted(m.current)
       IN  g' = [g EXCEPT !.recanon =
                    Set(canonicalize([i \in 1..Len(ks) |-> record_of_key(ks[i])]))]
    /\ pc' = "done"
    /\ UNCHANGED <<scenario, now, disk, hbFile, m, f, hbCount, last>>

NextText == Canon \/ Recanon

\* many runs over several days, every run running to its end
Spec == Init /\ [][Next]_vars

\* the runs of one day, with the full menu of responses
SpecDeep == InitDeep /\ [][Next]_vars

\* the runs of one day, any of which may be killed at any point
SpecCrash == InitCrash /\ [][NextCrash]_vars

\* canonicalize() on its own, over field strings made of up to MaxTok tokens
SpecText == InitText /\ [][NextText]_vars

(***************************************************************************)
(* Properties                                                              *)
(***************************************************************************)
ChainOrder == <<"api", "embed", "html">>

\* main() is past fetch_all
Fetched == pc \in {"canon", "diff", "save_open", "save_write", "save_replace"}
           \/ (pc = "done" /\ in_window(now))

\* main() is past the diff step
Diffed == pc \in {"save_open", "save_write", "save_replace"}
          \/ (pc = "done" /\ in_window(now))

Completed == pc = "done" /\ in_window(now)

\* the kinds of the notices of the diff step, in the order sent
DiffKinds ==
    LET ns == SelectSeq(g.notices, LAMBDA n : n.msg.kind \in {"init", "change"})
    IN  [i \in 1..Len(ns) |-> ns[i].msg.kind]

HbNotices == SelectSeq(g.notices, LAMBDA n : n.msg.kind = "heartbeat")

\* C1: fetch_all invokes the strategies in the order API, embed, HTML; a
\* strategy is invoked only when every earlier one has returned an empty
\* list; once fetch_all has returned, the last strategy invoked is the one
\* whose list is returned, it is the HTML fallback or its list is not
\* empty, and no strategy was invoked after it.
C1_StrategyChain ==
    /\ Len(g.started) <= 3
    /\ Len(g.calls) <= Len(g.started)
    /\ \A i \in 1..Len(g.started) : g.started[i] = ChainOrder[i]
    /\ \A i \in 1..Len(g.calls) : g.calls[i].name = ChainOrder[i]
    /\ \A i \in 2..Len(g.started) :
         /\ Len(g.calls) >= i - 1
         /\ \A j \in 1..(i - 1) : g.calls[j].n = 0
    /\ Fetched =>
         /\ g.started # <<>>
         /\ Len(g.calls) = Len(g.started)
         /\ Len(m.rooms) = g.calls[Len(g.calls)].n
         /\ g.calls[Len(g.calls)].n > 0 \/ g.calls[Len(g.calls)].name = "html"

\* the embed strategy returned records after the API returned none
C1_Witness == Completed /\ g.started = <<"api", "embed">> /\ m.rooms # <<>>

\* C2: once an in-window run is past the diff step, the notices of that
\* step are: one initialization notice when load_state reported no prior
\* state (whatever the current set is), nothing when a prior state was loaded
\* and equals the current set, one change notice when it differs.
C2_DiffNotice ==
    Diffed =>
        LET l == load_state(g.disk0)
        IN  DiffKinds = IF l.is_init THEN <<"init">>
                        ELSE IF l.prev = m.current THEN <<>>
                        ELSE <<"change">>

\* a loaded empty state and an empty current set: no notice
C2_Witness ==
    /\ Completed
    /\ load_state(g.disk0) = Loaded({}, FALSE)
    /\ m.current = {}
    /\ DiffKinds = <<>>

\* C3: a completed in-window run has called save_state exactly once, with
\* its current key set, and the state file then holds the document of that
\* set; between runs the state file holds the set of the last completed
\* in-window run.
C3_SavedCurrent ==
    /\ Completed => g.saves = <<m.current>> /\ disk.state = save_payload(m.current)
    /\ (pc = "idle" /\ last.any) => disk.state = save_payload(last.set)

\* the no-change branch was taken and the set was saved all the same
C3_Witness ==
    /\ Completed
    /\ ~m.is_init
    /\ m.prev = m.current
    /\ m.current # {}
    /\ g.saves = <<m.current>>

\* C4: with no state file load_state gives (empty set, initial); after a
\* completed save of s, load_state gives (s, not initial); so a run that
\* follows a completed in-window run loads the set that run saved and is
\* not an initialization run.
C4_RoundTrip ==
    /\ disk.state = NoFile => load_state(disk) = Loaded({}, TRUE)
    /\ Completed => load_state(disk) = Loaded(m.current, FALSE)
    /\ (g.loads = 1 /\ last.any) => (m.prev = last.set /\ ~m.is_init)

\* the run after one that saved the empty set: not an initialization run
C4_Witness ==
    /\ pc = "diff"
    /\ last.any
    /\ last.set = {}
    /\ m.prev = {}
    /\ ~m.is_init

\* a run has loaded the state and what it loaded is what load_state gives
\* on the files of its start with the temp file taken away
TmpIgnored ==
    g.loads = 1 =>
        Loaded(m.prev, m.is_init) = load_state([g.disk0 EXCEPT !.tmp = NoFile])

\* C5: the state file changes only in the rename step of save_state, and
\* then to the complete document of the current set (wherever the run is
\* killed, it holds the old content or the new); and what a run loads does
\* not depend on a temp file left behind.
C5_AtomicSave ==
    /\ []TmpIgnored
    /\ [][disk'.state # disk.state =>
            /\ pc = "save_replace"
            /\ disk'.state = save_payload(m.current)]_vars

\* a run was killed inside save_state after an earlier run had saved: the
\* temp file is left behind, partly written
C5_Witness ==
    /\ pc = "load"
    /\ disk.tmp.shape # "absent"
    /\ ~disk.tmp.complete
    /\ disk.state.shape = "dict"

\* the window of the claim: hour:minute from 09:30 to 18:59, both included
InClaimedWindow(t) ==
    /\ t.h * 60 + t.mi >= 9 * 60 + 30
    /\ t.h * 60 + t.mi <= 18 * 60 + 59

\* C6: in_window is true exactly for the times whose hour:minute lies in
\* 09:30..18:59, whatever the seconds and microseconds.
C6_WindowBounds == pc = "gate" => (in_window(now) <=> InClaimedWindow(now))

\* C7: a run at a time outside the window goes from the heartbeat check to
\* its end; it loads nothing, invokes no strategy, sends no notice, saves
\* nothing, and leaves the state file, the temp file and the heartbeat
\* marker as they were.
C7_OutOfWindowNoOp ==
    (pc # "idle" /\ ~in_window(now)) =>
        /\ pc \in {"hb", "gate", "done"}
        /\ g.loads = 0
        /\ g.started = <<>>
        /\ g.notices = <<>>
        /\ g.saves = <<>>
        /\ disk = g.disk0
        /\ hbFile = g.hb0

\* an out-of-window run has ended with a state file and a marker in place
C7_Witness ==
    /\ pc = "done"
    /\ ~in_window(now)
    /\ disk.state.shape = "dict"
    /\ hbFile # 0

InHbMinutes(t) == t.h = 9 /\ t.mi >= 30 /\ t.mi <= 39

C9_NonJsonFallthrough ==
    (Fetched /\ g.nonjson1) =>
        /\ g.apiReqs = <<1>>
        /\ g.calls[1] = [name |-> "api", n |-> 0]
        /\ Len(SelectSeq(g.started, LAMBDA x : x = "embed")) = 1

\* C10: a strategy in which a request failed with a network or HTTP error
\* is abandoned: it returns no record and fetch_all goes on to the next
\* strategy.
C10_ErrorAbandons ==
    Fetched =>
        /\ "api" \in g.errs => (g.calls[1].n = 0 /\ Len(g.started) >= 2)
        /\ "embed" \in g.errs => (g.calls[2].n = 0 /\ Len(g.started) = 3)

\* fetch_all has returned and none of the three strategies gave a record
NothingFetched == Fetched /\ Len(g.calls) = 3 /\ g.calls[3].n = 0

\* the names of the keys of S, in the order of the keys
RECURSIVE NamesOf(_)
NamesOf(srt) == IF srt = <<>> THEN <<>> ELSE <<Head(srt)[1]>> \o NamesOf(Tail(srt))

\* C11: in an in-window run in which all three strategies give no record
\* the current key set is empty and is diffed like any other: against a
\* loaded non-empty state one change notice goes out, with no added name
\* and with the names of (up to five of) the previous keys as removed;
\* against a loaded empty state nothing goes out; either way the run goes
\* on to its end and saves the empty set.
C11_TotalFailureDiffed ==
    /\ (NothingFetched /\ pc # "canon") => m.current = {}
    /\ (NothingFetched /\ Diffed) =>
         LET l == load_state(g.disk0)
         IN  /\ (~l.is_init /\ l.prev # {}) =>
                   /\ Len(DiffMsgs) = 1
                   /\ DiffMsgs[1].kind = "change"
                   /\ DiffMsgs[1].plus = <<>>
                   /\ DiffMsgs[1].minus # <<>>
                   /\ DiffMsgs[1].minus = Take(NamesOf(Sorted(l.prev)), SampleSize)
             /\ (~l.is_init /\ l.prev = {}) => DiffMsgs = <<>>
    /\ (NothingFetched /\ Completed) => disk.state = save_payload({})

\* nothing was fetched, the loaded state held keys: a change notice went out
C11_Witness ==
    /\ NothingFetched
    /\ Completed
    /\ m.prev # {}
    /\ Len(DiffMsgs) = 1

\* every strategy failed on its first request: no response could be read
AllFailed ==
    /\ NothingFetched
    /\ g.apiReqs = <<1>>
    /\ g.errs = {"api", "embed", "html"}
    /\ g.outer = "failed"

\* C12: an in-window run in which every strategy fails with an error leaves
\* the persisted snapshot as it was before the run.
C12_FailureKeepsState ==
    (AllFailed /\ Completed) => load_state(disk).prev = load_state(g.disk0).prev

\* a complete JSON document that is a list of six-field tuples, bare or
\* under "rooms"
WellFormed(c) ==
    /\ c.shape \in {"dict", "list"}
    /\ c.complete
    /\ \A i \in 1..Len(c.rooms) : Len(c.rooms[i]) = 6

Loaded_ == pc \notin {"idle", "hb", "gate", "load"} /\ g.loads = 1

\* C13: whenever the state file is there and is not a well-formed list of
\* six-field tuples, load_state gives (empty set, initial), so the run
\* has no previous key and takes the initialization branch.
C13_CorruptIsAbsent ==
    (Loaded_ /\ g.disk0.state.shape # "absent" /\ ~WellFormed(g.disk0.state))
        => (m.prev = {} /\ m.is_init)

\* C14: no call of notify lets an exception out and no run is aborted; each
\* call makes at most one request; a call whose request failed printed the
\* message in full; and the run that sent a notice whose request failed
\* still saves its current key set, once, and ends.
C14_NotifyFailureContained ==
    /\ pc # "aborted"
    /\ \A i \in 1..Len(g.notices) :
          /\ ~g.notices[i].raised
          /\ g.notices[i].posts <= 1
          /\ g.notices[i].via = "failed" => g.notices[i].logged
    /\ Len(DiffMsgs) <= 1
    /\ (Completed /\ Len(DiffMsgs) = 1) => g.saves = <<m.current>>
    /\ (Completed /\ Len(DiffMsgs) = 1) => disk.state = save_payload(m.current)

\* a run whose change notice could not be posted has saved a non-empty set
C14_Witness ==
    /\ Completed
    /\ \E i \in 1..Len(g.notices) :
          /\ g.notices[i].msg.kind = "change"
          /\ g.notices[i].via = "failed"
    /\ m.current # {}
    /\ disk.state = save_payload(m.current)

\* C15: canonicalizing the records rebuilt from the keys of one pass gives
\* those keys again.
C15_CanonIdempotent ==
    (scenario = "text" /\ pc = "done") => g.recanon = m.current

\* C16: two records that differ in the encoding of the square-meter unit
\* of their floor area only have one and the same key.
C16_GlyphEquivalence ==
    (scenario = "text" /\ pc # "canon") => Cardinality(m.current) = 1

\* the requests of fetch_api_v2_old so far: cursors 1, 2, 3, ... with no
\* repeat, at most MaxPages of them, each but the last answered by a page
\* for which enough(n) holds of its number n of items, and none after a
\* page of fewer than PageSize items, an empty page or an error
PagingBy(enough(_)) ==
    LET n == Len(g.apiReqs)
    IN  /\ g.apiReqs = [k \in 1..n |-> k]
        /\ n <= MaxPages
        /\ \A k \in 1..n : make_payload(k).pageSize = PageSize
        /\ \A k \in 1..(n - 1) : enough(g.apiGot[k])
        /\ pc = "api" => /\ f.page = n + 1
                         /\ \A k \in 1..n : g.apiGot[k] >= PageSize
        /\ (n >= 1 /\ g.apiGot[n] < PageSize) => pc # "api"

\* C17 as stated: page k+1 is requested only when each of the pages 1..k
\* gave exactly PageSize items.
C17_PagingExact == PagingBy(LAMBDA n : n = PageSize)

\* C17, amended: page k+1 is requested only when each of the pages 1..k
\* gave at least PageSize items; the cursors are 1, 2, 3, ..., none twice,
\* at most MaxPages requests, none after the first page with fewer than
\* PageSize items, no item or an error.
C17_PrimaryPaging == PagingBy(LAMBDA n : n >= PageSize)

\* the cap is reached: MaxPages full pages were requested and paging ended
C17_Witness ==
    /\ pc = "api_ret"
    /\ Len(g.apiReqs) = MaxPages
    /\ \A k \in 1..MaxPages : g.apiGot[k] = PageSize

\* C18: fetch_public_via_embed requests at most MaxCandidates candidates,
\* going down the ranked list; once a candidate has given a record no
\* later candidate is requested, so the records of out all come from one
\* candidate.
C18_FirstYieldAccepted ==
    /\ f.fetched <= MaxCandidates
    /\ f.fetched <= f.ci
    /\ f.accepted <= 1
    /\ ~f.late

\* the most paging requests one candidate can get
MaxPaging == Len(PageKeys) * MaxEmbedPage

\* each name at most once in a list of strategy names
Once(names) == \A i, j \in 1..Len(names) : names[i] = names[j] => i = j

\* C19: a run makes a bounded number of requests: at most MaxPages API
\* requests, one request of the outer page, at most MaxCandidates candidate
\* requests and at most 3 x MaxEmbedPage paging requests for one candidate,
\* one request of the raw page; no strategy is invoked twice, and no
\* request is made once fetch_all has returned.
C19_BoundedRequests ==
    /\ Len(g.apiReqs) <= MaxPages
    /\ g.outerReqs <= 1
    /\ f.fetched <= MaxCandidates
    /\ f.preq <= MaxPaging
    /\ f.i <= MaxEmbedPage
    /\ g.htmlReqs <= 1
    /\ Once(g.started)
    /\ Once([i \in 1..Len(g.calls) |-> g.calls[i].name])
    /\ Len(g.calls) <= Len(g.started)
    /\ Fetched => f = F0

\* the last of MaxCandidates candidates has had its last paging request
C19_Witness ==
    /\ g.outerReqs = 1
    /\ f.fetched = MaxCandidates
    /\ f.preq = MaxPaging

\* the steps of a run come in the order load_state, fetch_all, diff and
\* notification, save_state
StepOrder ==
    /\ g.started # <<>> => g.loads = 1
    /\ g.diffed => (g.loads = 1 /\ g.calls # <<>> /\ Diffed)
    /\ DiffMsgs # <<>> => g.diffed
    /\ g.saves # <<>> => g.diffed
    /\ pc \in {"save_open", "save_write", "save_replace"} =>
          (g.diffed /\ disk.state = g.disk0.state)

\* a run past its diff step, after a run that was killed between its diff
\* step and the end of its save, with the same current key set, has sent
\* the same notice (or, like it, none)
RepeatsNotice ==
    (Diffed /\ last.cut.on /\ m.current = last.cut.current) => DiffMsgs = last.cut.msgs

\* C20: a run loads, fetches, diffs and notifies, and saves, in this order;
\* the state file is replaced only after the diff step of the run, and, if
\* the diff found an initialization or a change, after its notice was
\* handed to notify; a run killed after the diff step and before the end
\* of the save leaves the state file as it was, and the next run that
\* fetches the same data sends the same notice again.
C20_NotifyBeforeSave ==
    /\ []StepOrder
    /\ []RepeatsNotice
    /\ [][disk'.state # disk.state =>
            /\ pc = "save_replace"
            /\ g.diffed
            /\ diff_branch(m.prev, m.is_init, m.current) # "no_change" => Len(DiffMsgs) = 1]_vars

\* a change notice is sent a second time, the run that sent it first having
\* been killed before it had saved
C20_Witness ==
    /\ Diffed
    /\ last.cut.on
    /\ m.current = last.cut.current
    /\ Len(DiffMsgs) = 1
    /\ DiffMsgs[1].kind = "change"
    /\ DiffMsgs = last.cut.msgs

====
